---- MODULE Spec2Model ----
(***************************************************************************)
(* TUSCAN.py: the motif scanner (guide_re.finditer), the producer          *)
(* (fill_queue), the scoring workers (score_sequences / output_sequences)  *)
(* and the orchestrating loop of __main__ with its two strand passes.      *)
(* Python strings are sequences of one-character strings; Python offsets   *)
(* are 0-based, so character i of a Python string s is s[i+1] here.        *)
(***************************************************************************)
EXTENDS Integers, Sequences, FiniteSets, TLC

\* ------------------------------------------------------------------ bounds
\* The largest worker count (num_threads) tried.
MaxThreads == 2
\* The batch limit of score_sequences, 10000 in the source, scaled down.
BatchLimit == 3
\* The largest load tried on the long inputs: the candidates of the strand times
\* the square of the worker count.
MaxLoad == 16
\* The longest variable tail of the sequences tried by the scanner alone.
MaxTail == 7
\* The longest sequence tried on reverse_complement alone.
MaxRevLen == 2
\* The longest repeating unit of the windows tried on get_features alone.
MaxPeriod == 2
\* The longest of the short sequences tried on the two di_content.
MaxDiLen == 4

\* --------------------------------------------------------------- constants
\* Python's None where an offset, a position or an argument is expected (these are
\* never negative), and the None that a worker puts on the output queue.
None == -1
NoneItem == <<None>>

Rep(c, n) == [i \in 1..n |-> c]

Min(a, b) == IF a < b THEN a ELSE b

\* s[a:b] of Python for 0 <= a and 0 <= b (the slice stops at the end of s).
Slice(s, a, b) == IF Min(b, Len(s)) > a THEN SubSeq(s, a + 1, Min(b, Len(s))) ELSE <<>>

RECURSIVE SeqSum(_)
SeqSum(s) == IF s = <<>> THEN 0 ELSE Head(s) + SeqSum(Tail(s))

\* ------------------------------------------------------------- the scanner
\* r'(?=([ACTG]{25}GG[ACTG]{3}))': the group inside the lookahead, one
\* character class per position.
ACTG == {"A", "C", "T", "G"}

\* guide_re with a suffix of one character: a window of 28.
guide_re_short == Rep(ACTG, 25) \o <<{"G"}, {"G"}>> \o Rep(ACTG, 1)
guide_re == Rep(ACTG, 25) \o <<{"G"}, {"G"}>> \o Rep(ACTG, 3)

\* The lookahead succeeds at offset i of text: the group matches text[i:].
MatchAt(text, i) ==
    /\ i + Len(guide_re) <= Len(text)
    /\ \A j \in 1..Len(guide_re) : text[i + j] \in guide_re[j]

\* m.group(1) of the match at offset i.
Group1(text, i) == Slice(text, i, i + Len(guide_re))

\* The regex engine's search from pos: the leftmost offset >= pos at which the
\* pattern matches, None when there is none (the iterator is exhausted).
Search(text, pos) ==
    LET hits == {i \in pos..Len(text) : MatchAt(text, i)}
    IN  IF hits = {} THEN None ELSE CHOOSE i \in hits : \A j \in hits : i <= j

\* Where finditer resumes after the match at m_start. The match is empty (the
\* whole pattern is a lookahead), so m.end() = m.start() and the iterator moves
\* one character on.
\* Resume as it would be were the pattern not a lookahead: after the window.
ResumeConsuming(m_start) == m_start + Len(guide_re)
Resume(m_start) == m_start + 1

\* ------------------------------------------------------- reverse complement
complement == [b \in {"A", "C", "G", "T"} |->
                 CASE b = "A" -> "T" [] b = "C" -> "G" [] b = "G" -> "C" [] b = "T" -> "A"]

Reversed(s) == [i \in 1..Len(s) |-> s[Len(s) + 1 - i]]

\* ------------------------------------------------------------------- state
VARIABLES
    sequence,        \* the text read from the FASTA file (lines 310-311)
    args,            \* <<args.s, args.f>>, None for an argument that is absent
    start,           \* region start (line 312)
    end,             \* region end (line 313)
    num_threads,     \* worker count (line 288)
    is_regression,   \* the mode (lines 278-280)
    main_pc,         \* where __main__ is
    is_reverse,      \* the strand pass of the loop at line 339: 0 forward, 1 reverse
    num_done,        \* done markers counted by the collector loop (line 345)
    f,               \* the tuples written to the output file (line 351), in order
    matches_queue,   \* Queue(maxsize=num_threads*2), FIFO
    output_queue,    \* Queue(): the items written to its pipe and not yet read, FIFO
    producer,        \* producer[r]: the fill_queue process of pass r
    worker,          \* worker[r][w]: the w-th score_sequences process of pass r
    pushed,          \* history: pushed[r], the offsets put on matches_queue in pass r
    taken,           \* history: taken[r], the offsets dequeued by workers in pass r
    calls,           \* history: calls[r], the row counts of the rf.predict calls of pass r
    scan_text,       \* the text scanned by the scanner run on its own
    scan_pos,        \* the position that scan resumes from, None when exhausted
    scan_out,        \* the (m.start(), m.group(1)) pairs yielded so far
    call_arg,        \* the argument of a function called on its own
    call_ret         \* what the calls made so far have returned, in order

pipeVars == <<sequence, args, start, end, num_threads, is_regression, main_pc, is_reverse, num_done, f,
              matches_queue, output_queue, producer, worker, pushed, taken, calls>>
scanVars == <<scan_text, scan_pos, scan_out>>
callVars == <<call_arg, call_ret>>
vars == <<pipeVars, scanVars, callVars>>

Passes == {0, 1}
Workers == 1..num_threads

chrom == "N/A"

\* reverse_complement(seq): the body reads the global `sequence`, not its
\* parameter (line 155). Defined when every base is a key of complement.
HasKeyError == \E i \in 1..Len(sequence) : sequence[i] \notin DOMAIN complement
reverse_complement(seq) == [i \in 1..Len(sequence) |-> complement[Reversed(sequence)[i]]]

\* The text behind the iterators `matches` (pass 0) and `matches_rev` (pass 1),
\* lines 324-325.
Text(r) == IF r = 0 THEN sequence ELSE reverse_complement(sequence)

\* ------------------------------------------------------------------ inputs
Fwd(k) == Rep("A", 25) \o Rep("G", k + 1) \o Rep("A", 3)
BothStrands == Rep("A", 3) \o <<"C", "C">> \o Rep("A", 20) \o <<"G", "G">> \o Rep("A", 3)
TooShort == Rep("A", 25) \o <<"G", "G">> \o Rep("A", 2)
\* 40 bases with one window, at offset 3 of the forward strand.
Scenario == Rep("A", 28) \o <<"G", "G">> \o Rep("A", 10)
Unsupported == <<"N">> \o Fwd(1)

ShortInputs == {Fwd(1), BothStrands, TooShort, Scenario, Unsupported}
LongInputs == {Fwd(k) : k \in 2..(BatchLimit + 1)}

\* (args.s, args.f): absent, or the 1-based bounds of a region.
ArgInputs == {<<None, None>>, <<None, 30>>, <<101, 130>>, <<101, 140>>}

\* ------------------------------------------------------------ the pipeline
\* maxsize of matches_queue (line 333).
\* (MaxsizeLoose: a maxsize one entry too large.)
MaxsizeLoose == num_threads * 2 + 1
Maxsize == num_threads * 2

\* Queue.put(block=True) returns only when the queue holds fewer than maxsize.
HasRoom(q) == Len(q) < Maxsize

\* The number of (None, None) sentinels fill_queue pushes (line 254).
\* (NumSentinelsOneMore, NumSentinelsOneLess: a loop bound off by one.)
NumSentinelsOneMore == num_threads + 1
NumSentinelsOneLess == num_threads - 1
NumSentinels == num_threads

Sentinel == <<None, None>>

\* The condition of the collector loop (line 346).
\* (LoopOneShort: a loop that stops one marker early.)
LoopOneShort(n) == n < num_threads - 1
LoopContinues(n) == n < num_threads

\* The batch is flushed when it has grown to the limit (line 245).
\* (BatchFullLate: > in place of >=.)
BatchFullLate(sequences) == Len(sequences) > BatchLimit
BatchFull(sequences) == Len(sequences) >= BatchLimit

\* After the sentinel: a pending batch is scored first (lines 232-233).
\* (FlushNever: the pending batch is dropped. FlushAlways: the test left out.)
FlushNever(sequences) == FALSE
FlushAlways(sequences) == TRUE
FlushPending(sequences) == sequences # <<>>

\* Lines 236-244: the metadata of a candidate.
\* (sequence_start_pos_short: the forward shift one short.)
sequence_start_pos_short(r, match_start) ==
    IF r = 1 THEN (end - match_start - 3 - 1) - 23 + 1
    ELSE start + match_start + 3 + 1
sequence_start_pos(r, match_start) ==
    IF r = 1 THEN (end - match_start - 3 - 1) - 23 + 1
    ELSE start + match_start + 3 + 2
sequence_end_pos(r, match_start) ==
    IF r = 1 THEN end - match_start - 3 - 1
    ELSE sequence_start_pos(r, match_start) + 23 - 1
strand(r) == IF r = 1 THEN "-" ELSE "+"
Metadata(r, match_start, seq) ==
    <<chrom, sequence_start_pos(r, match_start), sequence_end_pos(r, match_start),
      strand(r), Slice(seq, 4, Len(seq) - 3)>>

\* ------------------------------------------------------ the feature encoder
\* The tables of lines 31-145; a location is 1-based, as in the source.
REGRESSION_NUCLEOTIDES_OF_INTEREST == <<
    <<"T", 4>>, <<"C", 7>>, <<"C", 10>>, <<"T", 17>>, <<"C", 20>>, <<"T", 20>>, <<"G", 21>>,
    <<"T", 21>>, <<"G", 22>>, <<"T", 22>>, <<"C", 24>>, <<"G", 24>>, <<"T", 24>>
>>
CLASSIFICATION_NUCLEOTIDES_OF_INTEREST == <<
    <<"G", 5>>, <<"T", 11>>, <<"C", 12>>, <<"A", 16>>, <<"T", 17>>, <<"C", 20>>, <<"T", 20>>,
    <<"T", 22>>, <<"T", 23>>, <<"C", 24>>, <<"G", 24>>, <<"T", 24>>
>>
REGRESSION_DINUCLEOTIDES_OF_INTEREST == <<
    <<<<"A", "C">>, 1>>, <<<<"A", "C">>, 2>>, <<<<"C", "A">>, 3>>, <<<<"T", "T">>, 4>>,
    <<<<"G", "A">>, 5>>, <<<<"C", "T">>, 6>>, <<<<"A", "C">>, 8>>, <<<<"C", "C">>, 8>>,
    <<<<"G", "A">>, 8>>, <<<<"T", "T">>, 9>>, <<<<"A", "T">>, 10>>, <<<<"C", "G">>, 11>>,
    <<<<"G", "A">>, 12>>, <<<<"C", "C">>, 14>>, <<<<"G", "A">>, 15>>, <<<<"C", "C">>, 16>>,
    <<<<"G", "G">>, 16>>, <<<<"T", "T">>, 16>>, <<<<"C", "T">>, 17>>, <<<<"A", "A">>, 18>>,
    <<<<"G", "G">>, 19>>, <<<<"A", "T">>, 20>>, <<<<"C", "C">>, 20>>, <<<<"C", "G">>, 20>>,
    <<<<"C", "T">>, 20>>, <<<<"G", "G">>, 20>>, <<<<"T", "A">>, 21>>, <<<<"T", "G">>, 21>>,
    <<<<"C", "C">>, 22>>, <<<<"G", "A">>, 22>>, <<<<"T", "A">>, 22>>, <<<<"C", "G">>, 23>>,
    <<<<"G", "A">>, 23>>, <<<<"G", "G">>, 23>>, <<<<"T", "G">>, 23>>, <<<<"G", "A">>, 24>>,
    <<<<"G", "T">>, 24>>, <<<<"T", "C">>, 24>>
>>
CLASSIFICATION_DINUCLEOTIDES_OF_INTEREST == <<
    <<<<"C", "G">>, 11>>, <<<<"G", "A">>, 15>>, <<<<"T", "T">>, 16>>, <<<<"C", "C">>, 20>>,
    <<<<"T", "A">>, 22>>, <<<<"C", "G">>, 23>>, <<<<"T", "C">>, 23>>, <<<<"T", "G">>, 23>>,
    <<<<"C", "C">>, 24>>, <<<<"G", "A">>, 24>>, <<<<"G", "C">>, 24>>, <<<<"G", "T">>, 24>>,
    <<<<"T", "C">>, 24>>
>>
CLASSIFICATION_DINUCLEOTIDES == <<
    <<"A", "A">>, <<"A", "C">>, <<"A", "G">>, <<"A", "T">>,
    <<"C", "A">>, <<"C", "C">>, <<"C", "G">>, <<"C", "T">>,
    <<"G", "A">>, <<"G", "C">>, <<"G", "G">>, <<"G", "T">>,
    <<"T", "A">>, <<"T", "C">>, <<"T", "G">>, <<"T", "T">>
>>
REGRESSION_DINUCLEOTIDES == <<
    <<"C", "A">>, <<"C", "T">>, <<"G", "C">>, <<"T", "C">>, <<"T", "G">>, <<"T", "T">>
>>

\* seq.count(c)
Count(seq, c) == Cardinality({i \in 1..Len(seq) : seq[i] = c})

\* ---- the float arithmetic of line 150
\* (CHOOSE y \in {F(x) : x \in {v}} : TRUE is F(v), with v evaluated once.)
\* The significant bits of a float (IEEE 754 binary64).
MantissaBits == 53

\* A float that is not zero is its MantissaBits significant bits, the first of
\* them 1, and the exponent of the last of them: bits and exp stand for the
\* number ToInt(bits) * 2^exp. Zero has no bits.
Zero == [bits |-> <<>>, exp |-> 0]

\* The number of binary digits of an int n >= 0; 0 for 0.
BitLength(n) ==
    IF n >= 2 ^ 30 THEN 31
    ELSE CHOOSE len \in 0..30 : n < 2 ^ len /\ (len = 0 \/ n >= 2 ^ (len - 1))

\* The last width binary digits of n >= 0, the most significant first.
Bits(n, width) == [i \in 1..width |-> (n \div (2 ^ (width - i))) % 2]

\* The binary digits of n >= 0, the most significant first; none for 0.
IntBits(n) == CHOOSE y \in {Bits(n, len) : len \in {BitLength(n)}} : TRUE

\* bits from its first 1.
Strip(bits) ==
    IF \A i \in DOMAIN bits : bits[i] = 0 THEN <<>>
    ELSE LET first == CHOOSE i \in DOMAIN bits : bits[i] = 1 /\ \A j \in 1..(i - 1) : bits[j] = 0
         IN  SubSeq(bits, first, Len(bits))

\* The number whose binary digits are bits.
ToInt(bits) ==
    LET val[j \in 0..Len(bits)] == IF j = 0 THEN 0 ELSE 2 * val[j - 1] + bits[j]
    IN  val[Len(bits)]

\* bits plus one, where some digit of bits is 0.
Inc(bits) ==
    LET k == CHOOSE i \in DOMAIN bits : bits[i] = 0 /\ \A j \in (i + 1)..Len(bits) : bits[j] = 1
    IN  [i \in DOMAIN bits |-> IF i < k THEN bits[i] ELSE IF i = k THEN 1 ELSE 0]

\* The float nearest to a number, ties to the even mantissa. The number is
\* given by MantissaBits digits or more, the first of them 1, the exponent of
\* the last of them, and whether it exceeds them (by less than one unit of the
\* last digit).
Nearest(bits, exp, more) ==
    LET n == Len(bits)
        half == n > MantissaBits /\ bits[MantissaBits + 1] = 1
        rest == more \/ \E i \in (MantissaBits + 2)..n : bits[i] = 1
        up == half /\ (rest \/ bits[MantissaBits] = 1)
    IN  IF ~up THEN [bits |-> SubSeq(bits, 1, MantissaBits), exp |-> exp + n - MantissaBits]
        ELSE IF \A i \in 1..MantissaBits : bits[i] = 1
        THEN [bits |-> <<1>> \o Rep(0, MantissaBits - 1), exp |-> exp + n - MantissaBits + 1]
        ELSE CHOOSE y \in {[bits |-> Inc(kept), exp |-> exp + n - MantissaBits] :
                              kept \in {SubSeq(bits, 1, MantissaBits)}} : TRUE

\* The long division of a by b, width digits of the quotient at a step and
\* enough steps for MantissaBits + 1 digits from the first 1: the digits from
\* the first 1, whether a remainder is left, and the exponent of the last
\* digit. (s is the digits so far and the remainder.)
Quotient(a, b, width) ==
    LET steps == (MantissaBits + 30 - width) \div width + 1
        Step(s) == <<s[1] \o Bits((s[2] * (2 ^ width)) \div b, width),
                     (s[2] * (2 ^ width)) % b>>
        digits[i \in 0..steps] ==
            IF i = 0 THEN <<IntBits(a \div b), a % b>>
            ELSE CHOOSE y \in {Step(s) : s \in {digits[i - 1]}} : TRUE
    IN  CHOOSE y \in {<<Strip(s[1]), s[2] # 0, 0 - steps * width>> : s \in {digits[steps]}} : TRUE

\* a / b of two ints, a >= 0 and b > 0: the float nearest to the quotient. (The
\* division takes as many digits at a step as keep the scaled remainder below
\* 2^30.)
truediv(a, b) ==
    IF a = 0 THEN Zero
    ELSE CHOOSE y \in {Nearest(q[1], q[3], q[2]) :
                          q \in {Quotient(a, b, width) : width \in {30 - BitLength(b)}}} : TRUE

\* The binary digits of ToInt(bits) * c for an int c > 0, worked from the last
\* digits, width digits at a step, with a carry. (s is the digits so far and
\* the carry.)
Product(bits, c, width) ==
    LET steps == (Len(bits) + width - 1) \div width
        Part(i) == SubSeq(bits, IF Len(bits) - i * width < 0 THEN 1 ELSE Len(bits) - i * width + 1,
                          Len(bits) - (i - 1) * width)
        Step(s, i) ==
            CHOOSE y \in {<<Bits(t % (2 ^ width), width) \o s[1], t \div (2 ^ width)>> :
                             t \in {ToInt(part) * c + s[2] : part \in {Part(i)}}} : TRUE
        partial[i \in 0..steps] ==
            IF i = 0 THEN <<<<>>, 0>>
            ELSE CHOOSE y \in {Step(s, i) : s \in {partial[i - 1]}} : TRUE
    IN  CHOOSE y \in {Strip(IntBits(s[2]) \o s[1]) : s \in {partial[steps]}} : TRUE

Times(bits, c) == CHOOSE y \in {Product(bits, c, width) : width \in {30 - BitLength(c)}} : TRUE

\* x * c for a float x and an int c > 0 (c is converted exactly): the float
\* nearest to the product.
mul(x, c) ==
    IF x.bits = <<>> THEN Zero
    ELSE CHOOSE y \in {Nearest(p, x.exp, FALSE) : p \in {Times(x.bits, c)}} : TRUE

\* round(x, ndigits) for a float x >= 0, as a number of units of 10^-ndigits:
\* the decimal of ndigits places nearest to the exact value of x, ties to the
\* even last place.
round(x, ndigits) ==
    IF x.bits = <<>> THEN 0
    ELSE LET Units(p) ==
                 \* p is the digits of x * 10^ndigits, the last -x.exp of them
                 \* after the point
                 LET point == Len(p) + x.exp
                     half == point >= 0 /\ p[point + 1] = 1
                     rest == \E i \in (point + 2)..Len(p) : i >= 1 /\ p[i] = 1
                     odd == point > 0 /\ p[point] = 1
                 IN  (IF point <= 0 THEN 0
                      ELSE CHOOSE y \in {ToInt(whole) : whole \in {SubSeq(p, 1, point)}} : TRUE)
                         + (IF half /\ (rest \/ odd) THEN 1 ELSE 0)
         IN  IF x.exp >= 0
             THEN CHOOSE y \in {ToInt(p) : p \in {Times(x.bits, 10 ^ ndigits) \o Rep(0, x.exp)}} :
                      TRUE
             ELSE CHOOSE y \in {Units(p) : p \in {Times(x.bits, 10 ^ ndigits)}} : TRUE

\* round(num / den, 2) of two ints, in hundredths: the division and the
\* rounding of line 150.
RoundHundredths(num, den) == CHOOSE y \in {round(x, 2) : x \in {truediv(num, den)}} : TRUE

\* gc(seq), lines 149-150, as a number of hundredths: the quotient, its product
\* by 100 and the rounding are those of Python's floats.
gc(seq) ==
    CHOOSE hundredths \in
        {round(percent, 2) :
            percent \in {mul(quotient, 100) :
                quotient \in {truediv(count, length) :
                    count \in {Count(seq, "C") + Count(seq, "G")}, length \in {Len(seq)}}}} : TRUE

\* (FindAfter: the search started one character late.)
FindAfter(seq, sub, from) ==
    LET hits == {i \in (from + 1)..(Len(seq) - Len(sub)) : Slice(seq, i, i + Len(sub)) = sub}
    IN  IF hits = {} THEN -1 ELSE CHOOSE i \in hits : \A j \in hits : i <= j

\* seq.find(sub, from): the least offset >= from at which sub occurs, else -1.
Find(seq, sub, from) ==
    LET hits == {i \in from..(Len(seq) - Len(sub)) : Slice(seq, i, i + Len(sub)) = sub}
    IN  IF hits = {} THEN -1 ELSE CHOOSE i \in hits : \A j \in hits : i <= j

\* (DiCountDisjoint: the search resumed after the hit, not one character on.)
DiCountDisjoint(seq, di) ==
    LET loop[from \in 0..(Len(seq) + 2)] ==
            LET nxt == Find(seq, di, from) + 1
            IN  IF nxt # 0 THEN 1 + loop[nxt + 1] ELSE 0
    IN  loop[0]

\* The while loop of di_content, lines 161-168: the count stored for one
\* dinucleotide; loop[from] is what the loop adds to count when it is at the
\* top with start = from.
DiCount(seq, di) ==
    LET loop[from \in 0..(Len(seq) + 1)] ==
            LET nxt == Find(seq, di, from) + 1
            IN  IF nxt # 0 THEN 1 + loop[nxt] ELSE 0
    IN  loop[0]

\* di_content, lines 159-168: features with the counts written from start_index.
di_content(seq, dinucleotides_to_count, features, start_index) ==
    [k \in DOMAIN features |->
        IF k - 1 - start_index \in 0..(Len(dinucleotides_to_count) - 1)
        THEN DiCount(seq, dinucleotides_to_count[k - start_index])
        ELSE features[k]]

\* (pam_before: the slot before the one asked for.)
pam_before(seq, features, index) ==
    IF Slice(seq, 24, 28) = <<"T", "G", "G", "T">>
    THEN [features EXCEPT ![index] = 1]
    ELSE features

\* pam, lines 172-174.
pam(seq, features, index) ==
    IF Slice(seq, 24, 28) = <<"T", "G", "G", "T">>
    THEN [features EXCEPT ![index + 1] = 1]
    ELSE features

\* (nucleotide_zero_based: the location read as a 0-based index.)
nucleotide_zero_based(seq, nucleotides_of_interest, features, start_index) ==
    [k \in DOMAIN features |->
        LET idx == k - 1 - start_index
        IN  IF /\ idx \in 0..(Len(nucleotides_of_interest) - 1)
               /\ seq[nucleotides_of_interest[idx + 1][2] + 1]
                      = nucleotides_of_interest[idx + 1][1]
            THEN 1 ELSE features[k]]

\* nucleotide, lines 178-181: entry idx of the table sets slot start_index+idx
\* to 1 when the base at its location is the entry's, and leaves it otherwise.
nucleotide(seq, nucleotides_of_interest, features, start_index) ==
    [k \in DOMAIN features |->
        LET idx == k - 1 - start_index
        IN  IF /\ idx \in 0..(Len(nucleotides_of_interest) - 1)
               /\ seq[nucleotides_of_interest[idx + 1][2] - 1 + 1]
                      = nucleotides_of_interest[idx + 1][1]
            THEN 1 ELSE features[k]]

\* dinucleotide, lines 185-190: entry idx of the table sets slot start_index+idx
\* to 1 when seq[location-1:location+1] is the entry's dinucleotide.
dinucleotide(seq, dinucleotides_of_interest, features, start_index) ==
    [k \in DOMAIN features |->
        LET idx == k - 1 - start_index
        IN  IF /\ idx \in 0..(Len(dinucleotides_of_interest) - 1)
               /\ LET location == dinucleotides_of_interest[idx + 1][2]
                  IN  Slice(seq, location - 1, location + 1)
                          = dinucleotides_of_interest[idx + 1][1]
            THEN 1 ELSE features[k]]

\* The first five values (lines 197-201 and 208-212).
Composition(seq, features) ==
    [k \in DOMAIN features |->
        CASE k = 1 -> gc(seq)
          [] k = 2 -> Count(seq, "A")
          [] k = 3 -> Count(seq, "C")
          [] k = 4 -> Count(seq, "G")
          [] k = 5 -> Count(seq, "T")
          [] OTHER -> features[k]]

\* get_features, lines 194-216.
get_features(seq) ==
    IF is_regression
    THEN pam(seq,
             dinucleotide(seq, REGRESSION_DINUCLEOTIDES_OF_INTEREST,
                 nucleotide(seq, REGRESSION_NUCLEOTIDES_OF_INTEREST,
                     di_content(seq, REGRESSION_DINUCLEOTIDES,
                         Composition(seq, Rep(0, 63)), 5),
                     11),
                 24),
             62)
    ELSE dinucleotide(seq, CLASSIFICATION_DINUCLEOTIDES_OF_INTEREST,
             nucleotide(seq, CLASSIFICATION_NUCLEOTIDES_OF_INTEREST,
                 di_content(seq, CLASSIFICATION_DINUCLEOTIDES,
                     Composition(seq, Rep(0, 46)), 5),
                 21),
             33)

\* The assignments features[index] = value that one call makes, in the order
\* of the source, as <<index, value>> pairs with the 0-based index of the source.
Assigned(hits) == SelectSeq(hits, LAMBDA a : a # <<>>)

\* Lines 197-201 and 208-212.
composition_assignments(seq) ==
    <<<<0, gc(seq)>>, <<1, Count(seq, "A")>>, <<2, Count(seq, "C")>>,
      <<3, Count(seq, "G")>>, <<4, Count(seq, "T")>>>>

\* Line 167: one assignment for every dinucleotide of the list.
di_content_assignments(seq, dinucleotides_to_count, start_index) ==
    [k \in 1..Len(dinucleotides_to_count) |->
        <<start_index + (k - 1), DiCount(seq, dinucleotides_to_count[k])>>]

\* Line 174.
pam_assignments(seq, index) ==
    IF Slice(seq, 24, 28) = <<"T", "G", "G", "T">> THEN <<<<index, 1>>>> ELSE <<>>

\* Line 181: one assignment for every entry whose base is at its location.
nucleotide_assignments(seq, nucleotides_of_interest, start_index) ==
    Assigned([k \in 1..Len(nucleotides_of_interest) |->
        IF seq[nucleotides_of_interest[k][2] - 1 + 1] = nucleotides_of_interest[k][1]
        THEN <<start_index + (k - 1), 1>> ELSE <<>>])

\* Line 190: one assignment for every entry whose dinucleotide is at its location.
dinucleotide_assignments(seq, dinucleotides_of_interest, start_index) ==
    Assigned([k \in 1..Len(dinucleotides_of_interest) |->
        IF Slice(seq, dinucleotides_of_interest[k][2] - 1, dinucleotides_of_interest[k][2] + 1)
               = dinucleotides_of_interest[k][1]
        THEN <<start_index + (k - 1), 1>> ELSE <<>>])

\* The assignments of get_features, lines 196-215.
get_features_assignments(seq) ==
    IF is_regression
    THEN composition_assignments(seq)
         \o di_content_assignments(seq, REGRESSION_DINUCLEOTIDES, 5)
         \o nucleotide_assignments(seq, REGRESSION_NUCLEOTIDES_OF_INTEREST, 11)
         \o dinucleotide_assignments(seq, REGRESSION_DINUCLEOTIDES_OF_INTEREST, 24)
         \o pam_assignments(seq, 62)
    ELSE composition_assignments(seq)
         \o di_content_assignments(seq, CLASSIFICATION_DINUCLEOTIDES, 5)
         \o nucleotide_assignments(seq, CLASSIFICATION_NUCLEOTIDES_OF_INTEREST, 21)
         \o dinucleotide_assignments(seq, CLASSIFICATION_DINUCLEOTIDES_OF_INTEREST, 33)

\* str(n) of a count n >= 0: its decimal digits.
Digit(d) == <<"0", "1", "2", "3", "4", "5", "6", "7", "8", "9">>[d + 1]
RECURSIVE str(_)
str(n) == IF n < 10 THEN <<Digit(n)>> ELSE str(n \div 10) \o <<Digit(n % 10)>>

\* di_content of FeatureMatrix.py, lines 31-39: for every dinucleotide of di,
\* the number of j in range(len(seq)-1) with seq[j:j+2] equal to it, as str.
FeatureMatrix_di_content(seq, di) ==
    [i \in 1..Len(di) |->
        str(Cardinality({j \in 0..(Len(seq) - 2) : Slice(seq, j, j + 2) = di[i]}))]

\* rf.predict(rows): the model is a black box that returns one score per row,
\* a function of the row alone; a score is represented by the row it scores.
rf_predict(rows) == [k \in 1..Len(rows) |-> <<"score", rows[k]>>]

\* (ScoredBackwards: the scores taken from the end of the list.)
ScoredBackwards(sequences, metadata) ==
    LET scores == rf_predict([k \in 1..Len(sequences) |-> get_features(sequences[k])])
    IN  [k \in 1..Min(Len(metadata), Len(scores)) |->
            metadata[k] \o <<scores[Len(scores) + 1 - k]>>]

\* output_sequences, lines 220-222: the records it puts, in order.
Scored(sequences, metadata) ==
    LET scores == rf_predict([k \in 1..Len(sequences) |-> get_features(sequences[k])])
    IN  [k \in 1..Min(Len(metadata), Len(scores)) |-> metadata[k] \o <<scores[k]>>]

\* ------------------------------------------------------------------- Init
NewProducer == [pc |-> "unborn", pos |-> 0, x |-> 0]
\* buffer is the part of output_queue inside the worker's process: put appends
\* to it and returns, and the queue's feeder thread of that process writes its
\* items to the pipe later (multiprocessing.Queue).
\* (starts is history: the match_start of every candidate of the batch.)
NewWorker == [pc |-> "unborn", sequences |-> <<>>, metadata |-> <<>>, starts |-> <<>>,
              pending |-> <<>>, buffer |-> <<>>, at_end |-> FALSE, sentinels |-> 0,
              dones |-> 0]

\* The state at line 322: the arguments are parsed and the sequence is read.
\* num_threads is an integer >= 1, as cpu_count() gives it (line 272 keeps a -t
\* argument as a string, which line 333 cannot multiply into a maxsize).
\* One worker runs the short inputs in both modes, with and without a region;
\* otherwise the mode is Regression and the region is the default one, and the
\* load of the long inputs is bounded.
InitPipe ==
    /\ sequence \in ShortInputs \cup LongInputs
    /\ num_threads \in 1..MaxThreads
    /\ is_regression \in BOOLEAN
    /\ args \in ArgInputs
    /\ start = (IF args[1] # None THEN args[1] - 1 ELSE 0)
    /\ end = (IF args[2] # None THEN args[2] - 1 ELSE Len(sequence))
    /\ (sequence \in LongInputs \/ num_threads > 1) =>
          (args = <<None, None>> /\ is_regression)
    /\ sequence \in LongInputs =>
          (Len(sequence) - Len(Fwd(0))) * num_threads * num_threads <= MaxLoad
    /\ main_pc = "scan"
    /\ is_reverse = 0
    /\ num_done = 0
    /\ f = <<>>
    /\ matches_queue = <<>>
    /\ output_queue = <<>>
    /\ producer = [r \in Passes |-> NewProducer]
    /\ worker = [r \in Passes |-> [w \in Workers |-> NewWorker]]
    /\ pushed = [r \in Passes |-> <<>>]
    /\ taken = [r \in Passes |-> <<>>]
    /\ calls = [r \in Passes |-> <<>>]

ScanIdle ==
    /\ scan_text = <<>>
    /\ scan_pos = None
    /\ scan_out = <<>>

CallIdle ==
    /\ call_arg = <<>>
    /\ call_ret = <<>>

Init == InitPipe /\ ScanIdle /\ CallIdle

\* ------------------------------------------------------------- __main__
\* Lines 323-333: the iterators are built; reverse_complement raises KeyError
\* on a base that complement lacks, and the program ends with the traceback.
Setup ==
    /\ main_pc = "scan"
    /\ main_pc' = IF HasKeyError THEN "KeyError" ELSE "start"
    /\ UNCHANGED <<sequence, args, start, end, num_threads, is_regression, is_reverse, num_done,
                   f, matches_queue, output_queue, producer, worker, pushed, taken, calls>>
    /\ UNCHANGED <<scanVars, callVars>>

\* Lines 340-345: the producer and the workers of the pass are started.
StartPass ==
    /\ main_pc = "start"
    /\ producer' = [producer EXCEPT ![is_reverse].pc = "fill"]
    /\ worker' = [worker EXCEPT ![is_reverse] =
                     [w \in Workers |-> [NewWorker EXCEPT !.pc = "get"]]]
    /\ num_done' = 0
    /\ main_pc' = "collect"
    /\ UNCHANGED <<sequence, args, start, end, num_threads, is_regression, is_reverse, f,
                   matches_queue, output_queue, pushed, taken, calls>>
    /\ UNCHANGED <<scanVars, callVars>>

\* Lines 346-351: one turn of the collector loop, on a record.
CollectRecord ==
    /\ main_pc = "collect"
    /\ LoopContinues(num_done)
    /\ output_queue # <<>>
    /\ Head(output_queue) # NoneItem
    /\ f' = Append(f, Head(output_queue))
    /\ output_queue' = Tail(output_queue)
    /\ UNCHANGED <<sequence, args, start, end, num_threads, is_regression, main_pc, is_reverse,
                   num_done, matches_queue, producer, worker, pushed, taken, calls>>
    /\ UNCHANGED <<scanVars, callVars>>

\* Lines 346-349: one turn of the collector loop, on a done marker.
CollectNone ==
    /\ main_pc = "collect"
    /\ LoopContinues(num_done)
    /\ output_queue # <<>>
    /\ Head(output_queue) = NoneItem
    /\ num_done' = num_done + 1
    /\ output_queue' = Tail(output_queue)
    /\ UNCHANGED <<sequence, args, start, end, num_threads, is_regression, main_pc, is_reverse,
                   f, matches_queue, producer, worker, pushed, taken, calls>>
    /\ UNCHANGED <<scanVars, callVars>>

\* Line 346: the loop condition fails and the collector stops reading.
ExitLoop ==
    /\ main_pc = "collect"
    /\ ~LoopContinues(num_done)
    /\ main_pc' = "join"
    /\ UNCHANGED <<sequence, args, start, end, num_threads, is_regression, is_reverse, num_done,
                   f, matches_queue, output_queue, producer, worker, pushed, taken, calls>>
    /\ UNCHANGED <<scanVars, callVars>>

\* Process.join() returns once the process has ended, normally or not.
Ended(p) == p.pc \in {"exited", "crashed"}

\* The process of a worker has ended when score_sequences has returned or
\* raised and the feeder thread has written out the buffer: the process waits
\* for that before it exits.
WorkerEnded(q) == q.pc \in {"return", "crashed"} /\ q.buffer = <<>>

\* Lines 352-354: every process of the pass has been joined.
\* (JoinedNoWait: the joins left out.)
JoinedNoWait(r) == TRUE
Joined(r) == Ended(producer[r]) /\ \A w \in Workers : WorkerEnded(worker[r][w])

\* Lines 352-354 and the next turn of the loop at line 339.
Join ==
    /\ main_pc = "join"
    /\ Joined(is_reverse)
    /\ IF is_reverse = 0
       THEN is_reverse' = 1 /\ main_pc' = "start"
       ELSE is_reverse' = is_reverse /\ main_pc' = "finished"
    /\ UNCHANGED <<sequence, args, start, end, num_threads, is_regression, num_done, f,
                   matches_queue, output_queue, producer, worker, pushed, taken, calls>>
    /\ UNCHANGED <<scanVars, callVars>>

\* ------------------------------------------------------------ fill_queue
\* Line 252-253: the iterator yields its next match and the pair is put; put
\* blocks while the queue is full.
FillPut(r) ==
    LET m_start == Search(Text(r), producer[r].pos)
    IN  /\ producer[r].pc = "fill"
        /\ m_start # None
        /\ HasRoom(matches_queue)
        /\ matches_queue' = Append(matches_queue, <<m_start, Group1(Text(r), m_start)>>)
        /\ producer' = [producer EXCEPT ![r].pos = Resume(m_start)]
        /\ pushed' = [pushed EXCEPT ![r] = Append(@, m_start)]
    /\ UNCHANGED <<sequence, args, start, end, num_threads, is_regression, main_pc, is_reverse,
                   num_done, f, output_queue, worker, taken, calls>>
    /\ UNCHANGED <<scanVars, callVars>>

\* Lines 254-255: the iterator is exhausted; one sentinel is put.
FillSentinel(r) ==
    /\ producer[r].pc = "fill"
    /\ Search(Text(r), producer[r].pos) = None
    /\ producer[r].x < NumSentinels
    /\ HasRoom(matches_queue)
    /\ matches_queue' = Append(matches_queue, Sentinel)
    /\ producer' = [producer EXCEPT ![r].x = @ + 1]
    /\ UNCHANGED <<sequence, args, start, end, num_threads, is_regression, main_pc, is_reverse,
                   num_done, f, output_queue, worker, pushed, taken, calls>>
    /\ UNCHANGED <<scanVars, callVars>>

\* fill_queue returns and its process ends.
ProducerExit(r) ==
    /\ producer[r].pc = "fill"
    /\ Search(Text(r), producer[r].pos) = None
    /\ producer[r].x >= NumSentinels
    /\ producer' = [producer EXCEPT ![r].pc = "exited"]
    /\ UNCHANGED <<sequence, args, start, end, num_threads, is_regression, main_pc, is_reverse,
                   num_done, f, matches_queue, output_queue, worker, pushed, taken, calls>>
    /\ UNCHANGED <<scanVars, callVars>>

\* -------------------------------------------------------- score_sequences
\* Lines 230, 236-248: a candidate is dequeued and joins the batch.
WorkerGetCandidate(r, w) ==
    /\ worker[r][w].pc = "get"
    /\ matches_queue # <<>>
    /\ Head(matches_queue)[1] # None
    /\ LET match_start == Head(matches_queue)[1]
           seq == Head(matches_queue)[2]
           sequences == Append(worker[r][w].sequences, seq)
           metadata == Append(worker[r][w].metadata, Metadata(r, match_start, seq))
       IN  /\ worker' = [worker EXCEPT ![r][w].sequences = sequences,
                                       ![r][w].metadata = metadata,
                                       ![r][w].starts = Append(@, match_start),
                                       ![r][w].pc = IF BatchFull(sequences)
                                                    THEN "predict" ELSE "get"]
           /\ taken' = [taken EXCEPT ![r] = Append(@, match_start)]
    /\ matches_queue' = Tail(matches_queue)
    /\ UNCHANGED <<sequence, args, start, end, num_threads, is_regression, main_pc, is_reverse,
                   num_done, f, output_queue, producer, pushed, calls>>
    /\ UNCHANGED <<scanVars, callVars>>

\* Lines 230-235: the sentinel is dequeued.
WorkerGetSentinel(r, w) ==
    /\ worker[r][w].pc = "get"
    /\ matches_queue # <<>>
    /\ Head(matches_queue)[1] = None
    /\ worker' = [worker EXCEPT ![r][w].sentinels = @ + 1,
                                ![r][w].at_end = TRUE,
                                ![r][w].pc = IF FlushPending(worker[r][w].sequences)
                                             THEN "predict" ELSE "put_none"]
    /\ matches_queue' = Tail(matches_queue)
    /\ UNCHANGED <<sequence, args, start, end, num_threads, is_regression, main_pc, is_reverse,
                   num_done, f, output_queue, producer, pushed, taken, calls>>
    /\ UNCHANGED <<scanVars, callVars>>

\* Line 220: rf.predict returns the scores of the batch.
PredictOk(r, w) ==
    /\ worker[r][w].pc = "predict"
    /\ worker' = [worker EXCEPT ![r][w].pending =
                                      Scored(worker[r][w].sequences, worker[r][w].metadata),
                                ![r][w].pc = "put"]
    /\ calls' = [calls EXCEPT ![r] = Append(@, Len(worker[r][w].sequences))]
    /\ UNCHANGED <<sequence, args, start, end, num_threads, is_regression, main_pc, is_reverse,
                   num_done, f, matches_queue, output_queue, producer, pushed, taken>>
    /\ UNCHANGED <<scanVars, callVars>>

\* Line 220: rf.predict raises and the exception leaves score_sequences.
PredictFails(r, w) ==
    /\ worker[r][w].pc = "predict"
    /\ worker' = [worker EXCEPT ![r][w].pc = "crashed"]
    /\ calls' = [calls EXCEPT ![r] = Append(@, Len(worker[r][w].sequences))]
    /\ UNCHANGED <<sequence, args, start, end, num_threads, is_regression, main_pc, is_reverse,
                   num_done, f, matches_queue, output_queue, producer, pushed, taken>>
    /\ UNCHANGED <<scanVars, callVars>>

\* The items put on output_queue and not yet read: those in the pipe and those
\* in the buffers of the workers.
Unread ==
    Len(output_queue)
        + SeqSum([k \in 1..(2 * num_threads) |->
                     Len(worker[(k - 1) \div num_threads][((k - 1) % num_threads) + 1].buffer)])

\* (PutRecordBounded: output_queue made with the maxsize of matches_queue.)
PutRecordBounded(r, w) ==
    /\ worker[r][w].pc = "put"
    /\ worker[r][w].pending # <<>>
    /\ Unread < Maxsize
    /\ worker' = [worker EXCEPT ![r][w] =
          IF Tail(@.pending) # <<>>
          THEN [@ EXCEPT !.buffer = Append(@, Head(worker[r][w].pending)),
                         !.pending = Tail(@)]
          ELSE IF @.at_end
          THEN [@ EXCEPT !.buffer = Append(@, Head(worker[r][w].pending)),
                         !.pending = <<>>, !.pc = "put_none"]
          ELSE [@ EXCEPT !.buffer = Append(@, Head(worker[r][w].pending)),
                         !.pending = <<>>, !.sequences = <<>>, !.metadata = <<>>,
                         !.starts = <<>>, !.pc = "get"]]
    /\ UNCHANGED <<sequence, args, start, end, num_threads, is_regression, main_pc, is_reverse,
                   num_done, f, matches_queue, output_queue, producer, pushed, taken, calls>>
    /\ UNCHANGED <<scanVars, callVars>>

\* Lines 221-222: one record is put, and put returns with the record in the
\* buffer of the worker's process; after the last one the batch is cleared
\* (lines 247-248) or, after the sentinel, the done marker is next.
PutRecord(r, w) ==
    /\ worker[r][w].pc = "put"
    /\ worker[r][w].pending # <<>>
    /\ worker' = [worker EXCEPT ![r][w] =
          IF Tail(@.pending) # <<>>
          THEN [@ EXCEPT !.buffer = Append(@, Head(worker[r][w].pending)),
                         !.pending = Tail(@)]
          ELSE IF @.at_end
          THEN [@ EXCEPT !.buffer = Append(@, Head(worker[r][w].pending)),
                         !.pending = <<>>, !.pc = "put_none"]
          ELSE [@ EXCEPT !.buffer = Append(@, Head(worker[r][w].pending)),
                         !.pending = <<>>, !.sequences = <<>>, !.metadata = <<>>,
                         !.starts = <<>>, !.pc = "get"]]
    /\ UNCHANGED <<sequence, args, start, end, num_threads, is_regression, main_pc, is_reverse,
                   num_done, f, matches_queue, output_queue, producer, pushed, taken, calls>>
    /\ UNCHANGED <<scanVars, callVars>>

\* Lines 234-235: the done marker is put, into the buffer of the worker's
\* process, and score_sequences returns.
PutNone(r, w) ==
    /\ worker[r][w].pc = "put_none"
    /\ worker' = [worker EXCEPT ![r][w].buffer = Append(@, NoneItem),
                                ![r][w].pc = "return", ![r][w].dones = @ + 1]
    /\ UNCHANGED <<sequence, args, start, end, num_threads, is_regression, main_pc, is_reverse,
                   num_done, f, matches_queue, output_queue, producer, pushed, taken, calls>>
    /\ UNCHANGED <<scanVars, callVars>>

\* The feeder thread of the worker's process writes the oldest item of the
\* buffer to the pipe of output_queue, where main can read it.
FeedOutput(r, w) ==
    /\ worker[r][w].buffer # <<>>
    /\ output_queue' = Append(output_queue, Head(worker[r][w].buffer))
    /\ worker' = [worker EXCEPT ![r][w].buffer = Tail(@)]
    /\ UNCHANGED <<sequence, args, start, end, num_threads, is_regression, main_pc, is_reverse,
                   num_done, f, matches_queue, producer, pushed, taken, calls>>
    /\ UNCHANGED <<scanVars, callVars>>

\* --------------------------------------------------------- specifications
Main == Setup \/ StartPass \/ CollectRecord \/ CollectNone \/ ExitLoop \/ Join

Producer(r) == FillPut(r) \/ FillSentinel(r) \/ ProducerExit(r)

Worker(r, w) ==
    \/ WorkerGetCandidate(r, w)
    \/ WorkerGetSentinel(r, w)
    \/ PredictOk(r, w)
    \/ PredictFails(r, w)
    \/ PutRecord(r, w)
    \/ PutNone(r, w)
    \/ FeedOutput(r, w)

Next ==
    \/ Main
    \/ \E r \in Passes : Producer(r)
    \/ \E r \in Passes : \E w \in Workers : Worker(r, w)

Spec == Init /\ [][Next]_vars

\* Some process that can take a step is scheduled.
FairSpec == Spec /\ WF_vars(Next)

\* ----------------------------------------------------- the scanner alone
Tails == UNION {[1..n -> {"A", "G"}] : n \in 0..MaxTail}
Heads == {Rep("A", 25), Rep("A", 24), <<"N">> \o Rep("A", 24),
          <<"C", "T", "G">> \o Rep("A", 20) \o <<"T", "C">>}
ScanInputs == {h \o t : h \in Heads, t \in Tails}

\* The pipeline is not run.
PipeOff ==
    /\ args = <<None, None>>
    /\ start = 0
    /\ end = 0
    /\ num_threads = 1
    /\ main_pc = "idle"
    /\ is_reverse = 0
    /\ num_done = 0
    /\ f = <<>>
    /\ matches_queue = <<>>
    /\ output_queue = <<>>
    /\ producer = [r \in Passes |-> NewProducer]
    /\ worker = [r \in Passes |-> [w \in Workers |-> NewWorker]]
    /\ pushed = [r \in Passes |-> <<>>]
    /\ taken = [r \in Passes |-> <<>>]
    /\ calls = [r \in Passes |-> <<>>]

PipeIdle ==
    /\ sequence = <<>>
    /\ is_regression = TRUE
    /\ PipeOff

InitScan ==
    /\ PipeIdle
    /\ CallIdle
    /\ scan_text \in ScanInputs
    /\ scan_pos = 0
    /\ scan_out = <<>>

\* One step of `for m in guide_re.finditer(text)`: the next match is yielded.
ScanYield ==
    LET m_start == Search(scan_text, scan_pos)
    IN  /\ scan_pos # None
        /\ m_start # None
        /\ scan_out' = Append(scan_out, <<m_start, Group1(scan_text, m_start)>>)
        /\ scan_pos' = Resume(m_start)
        /\ UNCHANGED <<scan_text, pipeVars, callVars>>

\* The iterator is exhausted.
ScanStop ==
    /\ scan_pos # None
    /\ Search(scan_text, scan_pos) = None
    /\ scan_pos' = None
    /\ UNCHANGED <<scan_text, scan_out, pipeVars, callVars>>

NextScan == ScanYield \/ ScanStop

ScanSpec == InitScan /\ [][NextScan]_vars

\* ---------------------------------------------- reverse_complement alone
\* The sequences over {A,C,G,T} of the lengths tried.
Strings(lo, hi) == UNION {[1..n -> {"A", "C", "G", "T"}] : n \in lo..hi}

\* The program is analysing `sequence`, and reverse_complement is to be called
\* on call_arg.
InitRev ==
    /\ PipeOff
    /\ ScanIdle
    /\ is_regression = TRUE
    /\ sequence \in Strings(1, MaxRevLen)
    /\ call_arg \in Strings(0, MaxRevLen)
    /\ call_ret = <<>>

\* reverse_complement is called, first on call_arg and then on what the call
\* before returned.
CallReverseComplement ==
    /\ Len(call_ret) < 2
    /\ call_ret' = Append(call_ret,
                         reverse_complement(IF call_ret = <<>> THEN call_arg
                                            ELSE call_ret[Len(call_ret)]))
    /\ UNCHANGED <<call_arg, pipeVars, scanVars>>

NextRev == CallReverseComplement

RevSpec == InitRev /\ [][NextRev]_vars

\* ---------------------------------------------------- get_features alone
\* The windows tried: 25 bases that repeat a unit of at most MaxPeriod bases,
\* then GG, then any 3 bases. Every one matches guide_re.
Units == UNION {[1..p -> {"A", "C", "G", "T"}] : p \in 1..MaxPeriod}
Periodic(unit, n) == [i \in 1..n |-> unit[((i - 1) % Len(unit)) + 1]]
Windows ==
    {Periodic(u, 25) \o <<"G", "G">> \o t : u \in Units, t \in [1..3 -> {"A", "C", "G", "T"}]}

InitFeat ==
    /\ PipeOff
    /\ ScanIdle
    /\ sequence = <<>>
    /\ is_regression \in BOOLEAN
    /\ call_arg \in Windows
    /\ call_ret = <<>>

\* get_features(call_arg) is called and returns the vector.
CallGetFeatures ==
    /\ call_ret = <<>>
    /\ call_ret' = <<get_features(call_arg)>>
    /\ UNCHANGED <<call_arg, pipeVars, scanVars>>

NextFeat == CallGetFeatures

FeatSpec == InitFeat /\ [][NextFeat]_vars

\* ------------------------------------------- the two di_content alone
\* The sequences tried: every sequence of at most MaxDiLen bases, and the
\* windows of get_features.
DiInputs == Strings(0, MaxDiLen) \cup Windows

\* The dinucleotide list of the mode, as get_features passes it (lines 202, 213).
DinucleotidesToCount ==
    IF is_regression THEN REGRESSION_DINUCLEOTIDES ELSE CLASSIFICATION_DINUCLEOTIDES

InitDi ==
    /\ PipeOff
    /\ ScanIdle
    /\ sequence = <<>>
    /\ is_regression \in BOOLEAN
    /\ call_arg \in DiInputs
    /\ call_ret = <<>>

Called(name) == \E k \in 1..Len(call_ret) : call_ret[k][1] = name

\* TUSCAN.py's di_content fills the slots from index 5 of a vector of zeros.
CallDiContent ==
    /\ ~Called("TUSCAN")
    /\ call_ret' = Append(call_ret,
          <<"TUSCAN", di_content(call_arg, DinucleotidesToCount,
                                 Rep(0, 5 + Len(DinucleotidesToCount)), 5)>>)
    /\ UNCHANGED <<call_arg, pipeVars, scanVars>>

\* FeatureMatrix.py's di_content returns its list.
CallFeatureMatrixDiContent ==
    /\ ~Called("FeatureMatrix")
    /\ call_ret' = Append(call_ret,
          <<"FeatureMatrix", FeatureMatrix_di_content(call_arg, DinucleotidesToCount)>>)
    /\ UNCHANGED <<call_arg, pipeVars, scanVars>>

NextDi == CallDiContent \/ CallFeatureMatrixDiContent

DiSpec == InitDi /\ [][NextDi]_vars

\* ------------------------------------------------------------ the claims
AnyCrashed == \E r \in Passes : \E w \in Workers : worker[r][w].pc = "crashed"

\* The collector of pass r has counted its done markers and stopped reading.
PassDone(r) ==
    \/ is_reverse = r /\ main_pc = "join"
    \/ is_reverse > r /\ main_pc \in {"start", "collect", "join"}
    \/ main_pc = "finished"

\* The offsets at which the pattern matches in the text of pass r.
AllOffsets(r) == {i \in 0..Len(Text(r)) : MatchAt(Text(r), i)}

Range(s) == {s[i] : i \in 1..Len(s)}
NoDuplicates(s) == \A i, j \in 1..Len(s) : i # j => s[i] # s[j]

\* The record the pipeline owes for the candidate at offset m of pass r.
RecordOf(r, m) ==
    Scored(<<Group1(Text(r), m)>>, <<Metadata(r, m, Group1(Text(r), m))>>)[1]

Occurrences(s, x) == Cardinality({i \in 1..Len(s) : s[i] = x})

\* C1: with no failing model call, both strand passes reach DONE and the
\* program ends: each producer has pushed every candidate and its N sentinels
\* and exited, every worker has returned and ended, and the collector has counted N done
\* markers; the run never stops short of that (no deadlock, no worker left
\* blocked on the candidate queue). A run stopped by the KeyError of line 325
\* starts no strand pass.
AllDone ==
    /\ main_pc = "finished"
    /\ num_done = num_threads
    /\ \A r \in Passes :
          /\ producer[r].pc = "exited"
          /\ producer[r].x = num_threads
          /\ Range(pushed[r]) = AllOffsets(r)
          /\ \A w \in Workers : WorkerEnded(worker[r][w]) /\ worker[r][w].pc = "return"
C1_PassesTerminate == <>(AllDone \/ AnyCrashed \/ main_pc = "KeyError")

C1_Witness ==
    /\ AllDone
    /\ num_threads > 1
    /\ Len(pushed[0]) > BatchLimit
    /\ pushed[1] = <<>>

\* C2: no candidate is dequeued twice and no record is written twice; when a
\* pass is DONE every candidate pushed in it has been dequeued, and the file
\* holds exactly one record for each of them and no other record of the pass.
C2_EachCandidateOnce ==
    \A r \in Passes :
        /\ NoDuplicates(taken[r])
        /\ NoDuplicates(f)
        /\ PassDone(r) =>
              /\ taken[r] = pushed[r]
              /\ \A i \in 1..Len(pushed[r]) : Occurrences(f, RecordOf(r, pushed[r][i])) = 1
              /\ Cardinality({j \in 1..Len(f) : f[j][4] = strand(r)}) = Len(pushed[r])

C2_Witness ==
    /\ main_pc = "finished"
    /\ Len(f) = BatchLimit + 1
    /\ Len(calls[0]) = 2
    /\ calls[0][1] < BatchLimit
    /\ calls[0][2] < BatchLimit

\* C3: once a model call has failed in a worker, the run does not come to rest
\* with the collector waiting on the result channel: the pass is aborted.
C3_FailureAbortsPass == ~(AnyCrashed /\ main_pc = "collect" /\ ~ENABLED Next)

\* C4: the producer pushes its sentinels after its last candidate and never
\* more than N of them, so no candidate is behind a sentinel in the queue; a
\* worker dequeues at most one sentinel and nothing after it; a worker that
\* returns has dequeued one; and when the pass is DONE the producer has pushed
\* exactly N, every worker has dequeued exactly one and none is left queued.
C4_OneSentinelPerWorker ==
    /\ \A i, j \in 1..Len(matches_queue) :
          (i < j /\ matches_queue[i][1] = None) => matches_queue[j][1] = None
    /\ \A r \in Passes :
          /\ producer[r].x <= num_threads
          /\ producer[r].x > 0 => Range(pushed[r]) = AllOffsets(r)
          /\ producer[r].pc = "exited" => producer[r].x = num_threads
          /\ \A w \in Workers :
                /\ worker[r][w].sentinels <= 1
                /\ worker[r][w].sentinels = 1 => worker[r][w].pc # "get" /\ worker[r][w].at_end
                /\ worker[r][w].pc \in {"put_none", "return"} =>
                      worker[r][w].sentinels = 1
          /\ PassDone(r) =>
                /\ producer[r].x = num_threads
                /\ \A w \in Workers : worker[r][w].sentinels = 1
                /\ is_reverse = r => matches_queue = <<>>

C4_Witness ==
    /\ PassDone(0)
    /\ is_reverse = 0
    /\ num_threads > 1
    /\ Len(pushed[0]) > 1

\* C5: a worker puts at most one done marker, none while records of a batch
\* are still to be put, and exactly one before it returns; the collector's
\* count never exceeds N; and when the collector has stopped reading its count
\* is N, the result channel is empty and every record of the pass is written.
C5_DoneMarkersLast ==
    /\ num_done <= num_threads
    /\ \A r \in Passes : \A w \in Workers :
          /\ worker[r][w].dones <= 1
          /\ worker[r][w].pc \in {"predict", "put"} => worker[r][w].dones = 0
          /\ worker[r][w].pending # <<>> => worker[r][w].dones = 0
          /\ worker[r][w].pc = "return" => worker[r][w].dones = 1
    /\ main_pc = "join" =>
          /\ num_done = num_threads
          /\ output_queue = <<>>
          /\ \A w \in Workers :
                worker[is_reverse][w].pending = <<>> /\ worker[is_reverse][w].buffer = <<>>
          /\ Cardinality({j \in 1..Len(f) : f[j][4] = strand(is_reverse)})
                 = Len(taken[is_reverse])

C5_Witness ==
    /\ main_pc = "join"
    /\ is_reverse = 0
    /\ num_threads > 1
    /\ Len(f) = BatchLimit + 1

\* C6: no process of the reverse pass exists before the producer and every
\* worker of the forward pass have ended; when the reverse pass is about to
\* start both queues are empty; and what the reverse pass consumes was
\* produced in the reverse pass.
C6_PassesDoNotOverlap ==
    /\ (\/ producer[1].pc # "unborn"
        \/ \E w \in Workers : worker[1][w].pc # "unborn") =>
          /\ Ended(producer[0])
          /\ \A w \in Workers : WorkerEnded(worker[0][w])
    /\ (is_reverse = 1 /\ main_pc = "start") =>
          matches_queue = <<>> /\ output_queue = <<>> /\ Unread = 0
    /\ \A i \in 1..Len(taken[1]) : i <= Len(pushed[1]) /\ taken[1][i] = pushed[1][i]
    /\ SeqSum([w \in Workers |-> worker[1][w].sentinels]) <= producer[1].x
    /\ (is_reverse = 1 /\ main_pc \in {"collect", "join"}) =>
          num_done <= SeqSum([w \in Workers |-> worker[1][w].dones])
    /\ \A i, j \in 1..Len(f) : (i < j /\ f[i][4] = "-") => f[j][4] = "-"

C6_Witness ==
    /\ is_reverse = 1
    /\ num_threads > 1
    /\ \E w \in Workers : worker[1][w].pc = "predict"
    /\ Len(f) = 1

\* C7: the candidate queue never holds more than 2*N entries, and the producer
\* is never more than 2*N entries ahead of what the workers have dequeued.
C7_QueueBounded ==
    /\ Len(matches_queue) <= 2 * num_threads
    /\ \A r \in Passes :
          (Len(pushed[r]) + producer[r].x)
              - (Len(taken[r]) + SeqSum([w \in Workers |-> worker[r][w].sentinels]))
          <= 2 * num_threads

C7_Witness ==
    /\ Len(matches_queue) = 2 * num_threads
    /\ num_threads > 1
    /\ producer[0].pc = "fill"
    /\ producer[0].x < num_threads
    /\ taken[0] = <<>>

\* C8 as stated: a pass over BatchLimit+1 candidates makes exactly two model
\* calls, one of BatchLimit rows and one of 1 row, whatever the worker count.
C8_TwoCallsAnyWorkers ==
    \A r \in Passes :
        (PassDone(r) /\ Len(pushed[r]) = BatchLimit + 1) =>
            (calls[r] = <<BatchLimit, 1>> \/ calls[r] = <<1, BatchLimit>>)

\* C8 amended: with one worker a pass over BatchLimit+1 candidates makes
\* exactly two model calls, of BatchLimit rows and then of 1 row; with N > 1
\* workers each worker batches what it dequeued itself, so the calls number
\* at least 2 and at most N, each has from 1 to BatchLimit rows, and their rows
\* add up to BatchLimit+1.
C8_TwoCallsOneWorker ==
    \A r \in Passes :
        (PassDone(r) /\ Len(pushed[r]) = BatchLimit + 1) =>
            /\ num_threads = 1 => calls[r] = <<BatchLimit, 1>>
            /\ Len(calls[r]) >= 2
            /\ Len(calls[r]) <= (IF num_threads > 2 THEN num_threads ELSE 2)
            /\ \A k \in 1..Len(calls[r]) : calls[r][k] >= 1 /\ calls[r][k] <= BatchLimit
            /\ SeqSum(calls[r]) = BatchLimit + 1

C8_Witness ==
    /\ PassDone(0)
    /\ num_threads = 1
    /\ Len(pushed[0]) = BatchLimit + 1
    /\ calls[0] = <<BatchLimit, 1>>

\* The offsets a sliding-window scan reports: every offset with a whole window
\* of 25 + 2 + 3 characters whose characters 25 and 26 are GG.
SlidingOffsets(text) ==
    {i \in 0..(Len(text) - (25 + 2 + 3)) : text[i + 25 + 1] = "G" /\ text[i + 26 + 1] = "G"}

OverACGT(text) == \A i \in 1..Len(text) : text[i] \in {"A", "C", "G", "T"}

\* C9: on a text over {A,C,G,T} the scanner yields strictly ascending offsets,
\* each with the window that starts there, and when it is exhausted it has
\* yielded exactly the offsets of the sliding-window scan.
C9_ScannerFindsEveryOffset ==
    OverACGT(scan_text) =>
        /\ \A k \in 1..Len(scan_out) :
              /\ scan_out[k][1] \in SlidingOffsets(scan_text)
              /\ scan_out[k][2] = SubSeq(scan_text, scan_out[k][1] + 1, scan_out[k][1] + 30)
              /\ \A l \in 1..Len(scan_out) : k < l => scan_out[k][1] < scan_out[l][1]
        /\ scan_pos = None => {scan_out[k][1] : k \in 1..Len(scan_out)} = SlidingOffsets(scan_text)

C9_Witness ==
    /\ OverACGT(scan_text)
    /\ scan_pos = None
    /\ Len(scan_text) >= 32
    /\ Len(scan_out) = 2
    /\ scan_out[2][1] = scan_out[1][1] + 1

\* The windows on the candidate queue and the windows of the batches that
\* workers hand to get_features.
QueuedWindows ==
    {matches_queue[i][2] : i \in {j \in 1..Len(matches_queue) : matches_queue[j][1] # None}}
BatchWindows == UNION {Range(worker[r][w].sequences) : r \in Passes, w \in Workers}

\* C10 as stated: every window enqueued or passed to get_features has 28 characters.
C10_WindowIs28 == \A win \in QueuedWindows \cup BatchWindows : Len(win) = 28

\* C10 amended: every window enqueued or passed to get_features has exactly 30
\* characters (25, then GG, then 3).
C10_WindowIs30 == \A win \in QueuedWindows \cup BatchWindows : Len(win) = 30

C10_Witness ==
    /\ QueuedWindows # {}
    /\ \E r \in Passes : \E w \in Workers :
          worker[r][w].pc = "predict" /\ Len(worker[r][w].sequences) = BatchLimit

\* The items put on output_queue and still in the buffers of the workers'
\* processes, worker after worker.
Buffered ==
    LET buffers[k \in 0..(2 * num_threads)] ==
            IF k = 0 THEN <<>>
            ELSE buffers[k - 1]
                     \o worker[(k - 1) \div num_threads][((k - 1) % num_threads) + 1].buffer
    IN  buffers[2 * num_threads]

\* The records of the run so far, written or still on the result channel (in
\* its pipe or in a worker's buffer); the records of one worker are in the
\* order in which it put them.
Emitted == f \o SelectSeq(output_queue \o Buffered, LAMBDA x : x # NoneItem)

\* C11: every record of the forward pass has strand '+', and belongs to a
\* forward hit at some match offset i, with Start = start + i + 5 and End =
\* Start + 22 and the 23 bases sequence[i+4:i+27]; when the forward pass is
\* DONE every forward hit has such a record.
C11_ForwardCoordinates ==
    /\ is_reverse = 0 => \A j \in 1..Len(Emitted) : Emitted[j][4] = "+"
    /\ \A j \in 1..Len(Emitted) :
          Emitted[j][4] = "+" =>
              \E i \in AllOffsets(0) :
                  /\ Emitted[j][2] = start + i + 5
                  /\ Emitted[j][3] = Emitted[j][2] + 22
                  /\ Emitted[j][5] = SubSeq(sequence, i + 5, i + 27)
    /\ PassDone(0) =>
          \A i \in AllOffsets(0) :
              \E j \in 1..Len(f) :
                  /\ f[j][2] = start + i + 5
                  /\ f[j][3] = start + i + 5 + 22
                  /\ f[j][4] = "+"

C11_Witness ==
    /\ main_pc = "finished"
    /\ sequence = Scenario
    /\ start = 100
    /\ Len(f) = 1
    /\ f[1][2] = 108
    /\ f[1][3] = 130
    /\ f[1][4] = "+"

\* C12: reverse_complement applied twice returns its argument, for every
\* argument over {A,C,G,T} and whatever sequence the program is analysing.
C12_Involution == Len(call_ret) = 2 => call_ret[2] = call_arg

\* The tables of the mode in force.
DinucleotidesOfMode ==
    IF is_regression THEN REGRESSION_DINUCLEOTIDES ELSE CLASSIFICATION_DINUCLEOTIDES
NucleotidesOfInterestOfMode ==
    IF is_regression THEN REGRESSION_NUCLEOTIDES_OF_INTEREST
    ELSE CLASSIFICATION_NUCLEOTIDES_OF_INTEREST
DinucleotidesOfInterestOfMode ==
    IF is_regression THEN REGRESSION_DINUCLEOTIDES_OF_INTEREST
    ELSE CLASSIFICATION_DINUCLEOTIDES_OF_INTEREST

\* The 0-based offsets j of the window with window[j:j+2] equal to di.
OccurrencesOf(di, win) == {j \in 0..(Len(win) - 2) : <<win[j + 1], win[j + 2]>> = di}

\* C13 as stated: each slot of the dinucleotide-content block (from index 5)
\* is 1 when its dinucleotide occurs in the window and 0 when it does not.
C13_SlotIsPresence ==
    call_ret # <<>> =>
        \A k \in 1..Len(DinucleotidesOfMode) :
            call_ret[1][5 + k] =
                (IF OccurrencesOf(DinucleotidesOfMode[k], call_arg) # {} THEN 1 ELSE 0)

\* C13 amended: each slot of the dinucleotide-content block holds the number
\* of offsets of the window at which its dinucleotide starts, overlapping
\* occurrences included: 0 exactly when it does not occur, more than 1 when it
\* occurs several times.
C13_SlotIsCount ==
    call_ret # <<>> =>
        \A k \in 1..Len(DinucleotidesOfMode) :
            call_ret[1][5 + k] = Cardinality(OccurrencesOf(DinucleotidesOfMode[k], call_arg))

C13_Witness ==
    /\ call_ret # <<>>
    /\ is_regression
    /\ call_ret[1][5 + 6] = 26
    /\ call_ret[1][5 + 1] = 0
    /\ call_ret[1][5 + 5] = 1

\* The input has a character outside {A,C,G,T}, or is shorter than one window.
InvalidInput ==
    \/ \E i \in 1..Len(sequence) : sequence[i] \notin {"A", "C", "G", "T"}
    \/ Len(sequence) < Len(guide_re)

\* C14: a run on such an input is never in an error state, and when its
\* forward pass is DONE the file holds one record for each matching window of
\* the forward strand (a window with an unsupported character does not match).
C14_InvalidInputDegrades ==
    InvalidInput =>
        /\ main_pc # "KeyError"
        /\ PassDone(0) =>
              Cardinality({j \in 1..Len(f) : f[j][4] = "+"}) = Cardinality(AllOffsets(0))

\* The coordinate that forward hits give to the base at 0-based index j of
\* sequence: a forward hit at offset i reports the bases i+4 .. i+26 as
\* start + i + 5 .. start + i + 27.
ForwardCoordinate(j) == start + j + 1

\* The sequence is analysed whole: no end position is given (and no start), or
\* the positions given span exactly the Len(sequence) bases of the sequence.
AnalysedWhole ==
    IF args[2] = None THEN args[1] = None
    ELSE args[2] - (IF args[1] = None THEN 1 ELSE args[1]) + 1 = Len(sequence)

\* C15: every record of strand '-' belongs to a reverse hit at some match
\* offset i, with End = end - i - 4 and Start = End - 22; its 23 bases are the
\* complements of the bases L-i-27 .. L-i-5 of sequence, read backwards; and
\* when the sequence is analysed whole, Start and End are the coordinates that
\* forward hits give to those two bases, with the end position supplied or
\* defaulted.
C15_ReverseMirrorsForward ==
    \A j \in 1..Len(Emitted) :
        Emitted[j][4] = "-" =>
            \E i \in AllOffsets(1) :
                LET L == Len(sequence) IN
                /\ Emitted[j][3] = end - i - 4
                /\ Emitted[j][2] = Emitted[j][3] - 22
                /\ Emitted[j][5] = [k \in 1..23 |-> complement[sequence[(L - i - 5) - (k - 1) + 1]]]
                /\ AnalysedWhole =>
                      /\ Emitted[j][2] = ForwardCoordinate(L - i - 27)
                      /\ Emitted[j][3] = ForwardCoordinate(L - i - 5)

\* The candidates of pass r that workers hold in batches not yet handed to the
\* model.
Unscored(r) ==
    SeqSum([w \in Workers |->
               IF worker[r][w].pc \in {"get", "predict"} THEN Len(worker[r][w].sequences)
               ELSE 0])

\* C16: a worker's sequence list and metadata list have equal length; between
\* two dequeues its batch holds fewer than BatchLimit candidates, and never
\* more than BatchLimit; the model is called on a batch of at least 1 and at
\* most BatchLimit rows, on a batch short of BatchLimit only after the
\* sentinel; and every candidate dequeued is in exactly one call or in a batch
\* still to be scored, so no batch is split over two calls.
C16_WholeBatches ==
    \A r \in Passes :
        /\ \A w \in Workers :
              /\ Len(worker[r][w].sequences) = Len(worker[r][w].metadata)
              /\ Len(worker[r][w].sequences) <= BatchLimit
              /\ worker[r][w].pc = "get" => Len(worker[r][w].sequences) < BatchLimit
              /\ worker[r][w].pc = "predict" =>
                    /\ Len(worker[r][w].sequences) >= 1
                    /\ Len(worker[r][w].sequences) < BatchLimit => worker[r][w].at_end
              /\ worker[r][w].pc = "put" =>
                    /\ Len(worker[r][w].pending) >= 1
                    /\ Len(worker[r][w].pending) <= Len(worker[r][w].sequences)
        /\ \A k \in 1..Len(calls[r]) : calls[r][k] >= 1 /\ calls[r][k] <= BatchLimit
        /\ Cardinality({k \in 1..Len(calls[r]) : calls[r][k] < BatchLimit})
               <= Cardinality({w \in Workers : worker[r][w].at_end})
        /\ SeqSum(calls[r]) + Unscored(r) = Len(taken[r])

C16_Witness ==
    /\ num_threads = 2
    /\ worker[0][1].pc = "predict"
    /\ Len(worker[0][1].sequences) = BatchLimit
    /\ worker[0][2].pc = "get"
    /\ Len(worker[0][2].sequences) = 1

\* rec is the record owed to the k-th candidate of the batch of worker w of
\* pass r: it carries that candidate's coordinates, strand and bases, and the
\* score the model returns for the feature vector of its window.
IsOwed(rec, r, w, k) ==
    /\ Len(rec) = 6
    /\ SubSeq(rec, 1, 5)
           = Metadata(r, worker[r][w].starts[k], Group1(Text(r), worker[r][w].starts[k]))
    /\ rec[6] = <<"score", get_features(worker[r][w].sequences[k])>>

\* How many records of its batch worker w of pass r has put.
PutSoFar(r, w) ==
    CASE worker[r][w].pc = "put" -> Len(worker[r][w].sequences) - Len(worker[r][w].pending)
      [] worker[r][w].pc \in {"put_none", "return"} -> Len(worker[r][w].sequences)
      [] OTHER -> 0

\* C17: the k-th window of a worker's batch is the window of the k-th
\* candidate it dequeued into the batch; the records of the batch still to be
\* put are, in order, the records owed to its last candidates; and the records
\* already put are the records owed to its first candidates, found on the
\* result channel or in the file in the order of the candidates.
C17_ScoresFollowCandidates ==
    \A r \in Passes : \A w \in Workers :
        LET n == Len(worker[r][w].sequences)
            done == PutSoFar(r, w)
        IN  /\ Len(worker[r][w].starts) = n
            /\ \A k \in 1..n :
                  worker[r][w].sequences[k] = Group1(Text(r), worker[r][w].starts[k])
            /\ worker[r][w].pc = "put" =>
                  \A k \in (done + 1)..n :
                      IsOwed(worker[r][w].pending[k - done], r, w, k)
            /\ \A k \in 1..done :
                  \E a \in 1..Len(Emitted) :
                      /\ IsOwed(Emitted[a], r, w, k)
                      /\ k < done =>
                            \E b \in (a + 1)..Len(Emitted) :
                                IsOwed(Emitted[b], r, w, k + 1)

C17_Witness ==
    /\ num_threads = 2
    /\ \E w \in Workers :
          /\ worker[0][w].pc = "put"
          /\ Len(worker[0][w].sequences) = BatchLimit
          /\ Len(worker[0][w].pending) = 1
          /\ worker[0][w].starts[1] > 0

\* The value an indicator slot has for a condition.
Indicator(cond) == IF cond THEN 1 ELSE 0

\* The vector v of a window is laid out in contiguous blocks: 5 composition
\* values, then nd dinucleotide slots, np nucleotide-at-position slots and ndp
\* dinucleotide-at-position slots, each block with one slot for every entry of
\* its table in the order of the table, then, in Regression, the PAM-tail slot;
\* and nothing follows.
LaidOut(v, win, nd, np, ndp) ==
    /\ Len(DinucleotidesOfMode) = nd
    /\ Len(NucleotidesOfInterestOfMode) = np
    /\ Len(DinucleotidesOfInterestOfMode) = ndp
    /\ Len(v) = 5 + nd + np + ndp + (IF is_regression THEN 1 ELSE 0)
    /\ v[1] = gc(win)
    /\ v[2] = Count(win, "A") /\ v[3] = Count(win, "C")
    /\ v[4] = Count(win, "G") /\ v[5] = Count(win, "T")
    /\ \A k \in 1..nd :
          v[5 + k] = Cardinality(OccurrencesOf(DinucleotidesOfMode[k], win))
    /\ \A k \in 1..np :
          v[5 + nd + k] =
              Indicator(win[NucleotidesOfInterestOfMode[k][2]]
                            = NucleotidesOfInterestOfMode[k][1])
    /\ \A k \in 1..ndp :
          v[5 + nd + np + k] =
              Indicator(<<win[DinucleotidesOfInterestOfMode[k][2]],
                          win[DinucleotidesOfInterestOfMode[k][2] + 1]>>
                            = DinucleotidesOfInterestOfMode[k][1])
    /\ is_regression =>
          v[5 + nd + np + ndp + 1] =
              Indicator(SubSeq(win, 25, 28) = <<"T", "G", "G", "T">>)

\* C18 as stated: the vector has 63 values in Regression and 46 in
\* Classification, in blocks of 5, then 6 or 16, then 13 or 12, then 37 or 13
\* slots, then in Regression the PAM-tail slot at the final index.
C18_Blocks37 ==
    call_ret # <<>> =>
        /\ Len(call_ret[1]) = (IF is_regression THEN 63 ELSE 46)
        /\ IF is_regression THEN LaidOut(call_ret[1], call_arg, 6, 13, 37)
           ELSE LaidOut(call_ret[1], call_arg, 16, 12, 13)

\* C18 amended: as stated, but the dinucleotide-at-position block has 38
\* slots in Regression (indices 24-61), so that the PAM-tail slot is index 62.
C18_Blocks38 ==
    call_ret # <<>> =>
        /\ Len(call_ret[1]) = (IF is_regression THEN 63 ELSE 46)
        /\ IF is_regression THEN LaidOut(call_ret[1], call_arg, 6, 13, 38)
           ELSE LaidOut(call_ret[1], call_arg, 16, 12, 13)

C18_Witness ==
    /\ call_ret # <<>>
    /\ is_regression
    /\ SubSeq(call_arg, 25, 28) = <<"T", "G", "G", "T">>
    /\ call_arg[24] = "C"
    /\ call_ret[1][63] = 1
    /\ call_ret[1][62] = 0

NoRepeat(s) == \A i, j \in 1..Len(s) : i # j => s[i] # s[j]

\* The vector that a list of assignments makes of n zeros.
Applied(assignments, n) ==
    [k \in 1..n |->
        IF \E a \in 1..Len(assignments) : assignments[a][1] = k - 1
        THEN assignments[CHOOSE a \in 1..Len(assignments) : assignments[a][1] = k - 1][2]
        ELSE 0]

\* The start_index that get_features gives to nucleotide and to dinucleotide.
StartOfNucleotides == IF is_regression THEN 11 ELSE 21
StartOfDinucleotides == IF is_regression THEN 24 ELSE 33

\* C19: one call assigns no index twice, and its assignments make the vector
\* it returns; each nucleotide-at-position slot is 1 when window[position-1]
\* is the entry's nucleotide and 0 otherwise, and each dinucleotide-at-position
\* slot is 1 when window[position-1:position+1] is the entry's dinucleotide
\* and 0 otherwise.
C19_SlotsSetOnce ==
    call_ret # <<>> =>
        LET v == call_ret[1]
            assignments == get_features_assignments(call_arg)
        IN  /\ NoRepeat([a \in 1..Len(assignments) |-> assignments[a][1]])
            /\ \A a \in 1..Len(assignments) : assignments[a][1] \in 0..(Len(v) - 1)
            /\ Applied(assignments, Len(v)) = v
            /\ \A k \in 1..Len(NucleotidesOfInterestOfMode) :
                  LET position == NucleotidesOfInterestOfMode[k][2]
                  IN  v[StartOfNucleotides + k] = 1
                          <=> Slice(call_arg, position - 1, position)
                                  = <<NucleotidesOfInterestOfMode[k][1]>>
            /\ \A k \in 1..Len(DinucleotidesOfInterestOfMode) :
                  LET position == DinucleotidesOfInterestOfMode[k][2]
                  IN  v[StartOfDinucleotides + k] = 1
                          <=> Slice(call_arg, position - 1, position + 1)
                                  = DinucleotidesOfInterestOfMode[k][1]
            /\ \A k \in (StartOfNucleotides + 1)..Len(v) : v[k] \in {0, 1}

C19_Witness ==
    /\ call_ret # <<>>
    /\ ~is_regression
    /\ call_ret[1][21 + 1] = 1
    /\ call_ret[1][21 + 2] = 0
    /\ call_ret[1][33 + 2] = 1
    /\ call_ret[1][33 + 1] = 0

\* C20 as stated, with the capacity of the candidate queue as the bound: the
\* result channel never holds more than 2*N unread entries.
C20_ResultChannelBounded == Unread <= 2 * num_threads

\* C20 amended: the result channel has no capacity: a worker that has a record
\* or its done marker to put can always put it, however many entries are
\* unread; the unread entries are never more than the candidates dequeued in
\* the pass plus one done marker for each worker.
C20_ResultChannelUnbounded ==
    /\ \A r \in Passes : \A w \in Workers :
          /\ worker[r][w].pc = "put" => ENABLED PutRecord(r, w)
          /\ worker[r][w].pc = "put_none" => ENABLED PutNone(r, w)
    /\ Unread <= Len(taken[is_reverse]) + num_threads

C20_Witness ==
    /\ num_threads = 1
    /\ Unread = BatchLimit + 2
    /\ worker[0][1].buffer # <<>>
    /\ Len(taken[0]) = BatchLimit + 1
    /\ f = <<>>

\* What the call of the named implementation returned.
ReturnedBy(name) == call_ret[CHOOSE k \in 1..Len(call_ret) : call_ret[k][1] = name][2]

\* C21: for every sequence and every dinucleotide of the list, the count that
\* TUSCAN.py's di_content writes to the dinucleotide's slot is the number that
\* FeatureMatrix.py's di_content computes for it and returns in decimal: the
\* number of offsets j with seq[j:j+2] equal to the dinucleotide, overlapping
\* occurrences included.
C21_SameCounts ==
    (Called("TUSCAN") /\ Called("FeatureMatrix")) =>
        /\ Len(ReturnedBy("FeatureMatrix")) = Len(DinucleotidesToCount)
        /\ \A k \in 1..Len(DinucleotidesToCount) :
              /\ str(ReturnedBy("TUSCAN")[5 + k]) = ReturnedBy("FeatureMatrix")[k]
              /\ ReturnedBy("TUSCAN")[5 + k]
                     = Cardinality(OccurrencesOf(DinucleotidesToCount[k], call_arg))

C21_Witness ==
    /\ Called("TUSCAN") /\ Called("FeatureMatrix")
    /\ ~is_regression
    /\ call_arg = <<"A", "A", "A">>
    /\ ReturnedBy("TUSCAN")[5 + 1] = 2
    /\ ReturnedBy("FeatureMatrix")[1] = <<"2">>
====
